---- MODULE Spec2Model ----
(***************************************************************************)
(* Model of the OysterCard class of src/index.ts (london-tube): the card   *)
(* session (balance, currentJourney) with its operations load, tapIn and   *)
(* tapOut, and the zone fare resolver calculateTubeFare.                   *)
(*                                                                         *)
(* Money is held in integer pence (1.80 -> 180); the source holds pounds   *)
(* in IEEE doubles.  Every thrown Error is modelled by the outcome of the  *)
(* call ("res") together with the state the call leaves behind.            *)
(***************************************************************************)
EXTENDS Integers, Sequences, FiniteSets, TLC

\* ------------------------------------------------------------------------
\* Bounds of the model
\* ------------------------------------------------------------------------
\* the number of calls made on one card
MaxCalls == 4

MaxZone == 4

MaxZones == 2

\* ------------------------------------------------------------------------
\* enum TransportType
\* ------------------------------------------------------------------------
BUS == "bus"

TUBE == "tube"

TransportType == {BUS, TUBE}

\* ------------------------------------------------------------------------
\* const stations
\* ------------------------------------------------------------------------
stations ==
  << [name |-> "Holburn",         zones |-> <<1>>],
     [name |-> "Chelsea",         zones |-> <<1>>],
     [name |-> "Earl's Court",    zones |-> <<1, 2>>],
     [name |-> "Wimbledon",       zones |-> <<3>>],
     [name |-> "Hammersmith",     zones |-> <<2>>],
     [name |-> "Southfields",     zones |-> <<3>>],
     [name |-> "Any Station",     zones |-> <<1>>],
     [name |-> "Another Station", zones |-> <<1>>],
     [name |-> "Final Station",   zones |-> <<1>>] >>

\* what Array.prototype.find returns when nothing matches (undefined)
NoStation == [name |-> "", zones |-> << >>]

\* stations.find(s => s.name === stationName): the first match, or undefined
RECURSIVE FindFrom(_, _)
FindFrom(i, stationName) ==
  IF i > Len(stations) THEN NoStation
  ELSE IF stations[i].name = stationName THEN stations[i]
  ELSE FindFrom(i + 1, stationName)

FindDefaultsToFirst(stationName) ==
  IF FindFrom(1, stationName) = NoStation THEN stations[1]
  ELSE FindFrom(1, stationName)

Find(stationName) == FindFrom(1, stationName)

\* ------------------------------------------------------------------------
\* const fares, in pence
\* ------------------------------------------------------------------------
BusFare == 180

MaxFare == 320

Zone1Only == 250

OneZoneOutsideZone1 == 200

TwoZonesIncludingZone1 == 300

TwoZonesExcludingZone1 == 225

ThreeZones == 320

\* ------------------------------------------------------------------------
\* calculateTubeFare
\* ------------------------------------------------------------------------
AbsDropped(n) == n

Abs(n) == IF n < 0 THEN -n ELSE n

\* the body of the inner loop: the fare of one (fromZone, toZone) pair
ZoneFareSwapped(fromZone, toZone) ==
  LET journeyZones == {fromZone, toZone}
      journeySize == Abs(fromZone - toZone) + 1
      isZone1Involved == 1 \in journeyZones
  IN  CASE journeySize = 1 ->
             IF isZone1Involved THEN OneZoneOutsideZone1 ELSE Zone1Only
        [] journeySize = 2 ->
             IF isZone1Involved THEN TwoZonesIncludingZone1
             ELSE TwoZonesExcludingZone1
        [] OTHER -> ThreeZones

ZoneFare(fromZone, toZone) ==
  LET journeyZones == {fromZone, toZone}
      journeySize == Abs(fromZone - toZone) + 1
      isZone1Involved == 1 \in journeyZones
  IN  CASE journeySize = 1 ->
             IF isZone1Involved THEN Zone1Only ELSE OneZoneOutsideZone1
        [] journeySize = 2 ->
             IF isZone1Involved THEN TwoZonesIncludingZone1
             ELSE TwoZonesExcludingZone1
        [] OTHER -> ThreeZones

\* possibleFares after the two nested loops: one entry per pair, the outer
\* loop over fromZones, the inner over toZones
possibleFares(fromZones, toZones) ==
  [k \in 1..(Len(fromZones) * Len(toZones)) |->
     ZoneFare(fromZones[((k - 1) \div Len(toZones)) + 1],
              toZones[((k - 1) % Len(toZones)) + 1])]

\* Math.min(...values) of a non-empty list
MathMax(values) ==
  CHOOSE m \in {values[k] : k \in 1..Len(values)} :
    \A k \in 1..Len(values) : m >= values[k]

MathMin(values) ==
  CHOOSE m \in {values[k] : k \in 1..Len(values)} :
    \A k \in 1..Len(values) : m <= values[k]

\* Math.min(values) without the spread: Number(values), which is the element
\* of a one-element array and NaN (here -1) of a longer one
calculateTubeFareNoSpread(fromZones, toZones) ==
  IF Len(possibleFares(fromZones, toZones)) = 1
  THEN possibleFares(fromZones, toZones)[1]
  ELSE -1

calculateTubeFare(fromZones, toZones) ==
  MathMin(possibleFares(fromZones, toZones))

\* ------------------------------------------------------------------------
\* OysterCard: private helpers
\* ------------------------------------------------------------------------
\* currentJourney = null
NoJourney == [from |-> "", type |-> "none"]

\* the outcomes of a call: normal return, or the Error thrown
Ok == "ok"

UnknownStationError == "Station not found."

InsufficientBalanceError == "Insufficient balance."

InvalidTapOutError == "Invalid tap out."

\* the TypeError of reading .zones of undefined
TypeError == "TypeError"

\* deductFare: the condition of its throw
NeverInsufficient(bal, amount) == FALSE

InsufficientOrEqual(bal, amount) == bal <= amount

Insufficient(bal, amount) == bal < amount

\* deductFare: the balance it leaves when it does not throw
deductFare(bal, amount) == bal - amount

\* adjustFare
adjustFareDebits(bal, refund) == bal - refund

adjustFare(bal, refund) == bal + refund

\* tapOut: the condition of its first throw
NeverInvalidTapOut(journey) == FALSE

\* the condition with the negation of currentJourney dropped
InvalidTapOutInverted(journey) == journey # NoJourney \/ journey.type # TUBE

InvalidTapOut(journey) == journey = NoJourney \/ journey.type # TUBE

\* tapIn: the amount debited for a transport type
TapInFareAlwaysMax(type) == MaxFare

TapInFare(type) == IF type = TUBE THEN MaxFare ELSE BusFare

\* tapIn: currentJourney after a successful debit
TapInJourneyAnyType(journey, stationName, type) ==
  [from |-> stationName, type |-> type]

TapInJourney(journey, stationName, type) ==
  IF type = TUBE THEN [from |-> stationName, type |-> type] ELSE journey

\* tapOut: the refund handed to adjustFare
RefundNothing(fromZones, toZones) == 0

Refund(fromZones, toZones) == MaxFare - calculateTubeFare(fromZones, toZones)

\* ------------------------------------------------------------------------
\* Inputs of the calls
\* ------------------------------------------------------------------------
KnownNames == {stations[i].name : i \in 1..Len(stations)}

\* a name with no entry in the directory (the one the source's own test uses)
UnknownNames == {"Earl\"s Court"}

StationNames == KnownNames \cup UnknownNames

InitialBalances == {-100, 0, 200, 320, 3000}

LoadAmounts == {-100, 0, 180, 320}

\* the lists of zones a Station may carry
ZoneLists == UNION {[1..n -> 1..MaxZone] : n \in 1..MaxZones}

\* ------------------------------------------------------------------------
\* State
\* ------------------------------------------------------------------------
VARIABLES
  balance,         \* OysterCard.balance, pence
  currentJourney,  \* OysterCard.currentJourney, NoJourney for null
  last,            \* the most recent call on the card and its outcome
  prev,            \* the call before it
  unmatchedTube,   \* a tube tapIn has returned and no tapOut has returned since
  recentTapIn,     \* transport type of the most recent tapIn that returned
  recentClosed,    \* a tapOut has returned since that tapIn
  nonNegOnly,      \* initial balance and every loaded amount were >= 0
  accounted,       \* initial balance + loads - bus fares paid - tube fares settled
  fromZones,       \* calculateTubeFare: from.zones
  toZones,         \* calculateTubeFare: to.zones
  fare,            \* calculateTubeFare: the value returned, 0 before the call
  evaluated,       \* calculateTubeFare: possibleFares.length at the return
  calls            \* the number of calls made on the card so far

cardVars == <<balance, currentJourney, last, prev, unmatchedTube,
              recentTapIn, recentClosed, nonNegOnly, accounted, calls>>

fareVars == <<fromZones, toZones, fare, evaluated>>

vars == <<balance, currentJourney, last, prev, unmatchedTube,
          recentTapIn, recentClosed, nonNegOnly, accounted,
          fromZones, toZones, fare, evaluated, calls>>

\* the record of one call: the arguments, the outcome, and the card as the
\* call found it
Call(op, stationName, type, amount, res) ==
  [op |-> op, station |-> stationName, type |-> type, amount |-> amount,
   res |-> res, bal0 |-> balance, jny0 |-> currentJourney,
   unmatched0 |-> unmatchedTube, ret |-> 0]

NoCall ==
  [op |-> "new", station |-> "", type |-> "none", amount |-> 0,
   res |-> Ok, bal0 |-> 0, jny0 |-> NoJourney, unmatched0 |-> FALSE,
   ret |-> 0]

\* ------------------------------------------------------------------------
\* constructor(initialBalance)
\* ------------------------------------------------------------------------
Init ==
  /\ balance \in InitialBalances
  /\ currentJourney = NoJourney
  /\ last = NoCall
  /\ prev = NoCall
  /\ unmatchedTube = FALSE
  /\ recentTapIn = "none"
  /\ recentClosed = FALSE
  /\ nonNegOnly = (balance >= 0)
  /\ accounted = balance
  /\ fromZones = <<1>>
  /\ toZones = <<1>>
  /\ fare = 0
  /\ evaluated = 0
  /\ calls = 0

\* ------------------------------------------------------------------------
\* load(amount)
\* ------------------------------------------------------------------------
LoadClearsJourney(amount) ==
  /\ calls < MaxCalls
  /\ calls' = calls + 1
  /\ balance' = balance + amount
  /\ currentJourney' = NoJourney
  /\ last' = Call("load", "", "none", amount, Ok)
  /\ prev' = last
  /\ nonNegOnly' = (nonNegOnly /\ amount >= 0)
  /\ accounted' = accounted + amount
  /\ UNCHANGED <<unmatchedTube, recentTapIn, recentClosed>>
  /\ UNCHANGED fareVars

Load(amount) ==
  /\ calls < MaxCalls
  /\ calls' = calls + 1
  /\ balance' = balance + amount
  /\ last' = Call("load", "", "none", amount, Ok)
  /\ prev' = last
  /\ nonNegOnly' = (nonNegOnly /\ amount >= 0)
  /\ accounted' = accounted + amount
  /\ UNCHANGED <<currentJourney, unmatchedTube, recentTapIn, recentClosed>>
  /\ UNCHANGED fareVars

\* ------------------------------------------------------------------------
\* tapIn(stationName, type)
\* ------------------------------------------------------------------------
TapIn(stationName, type) ==
  LET station == Find(stationName)
      amount == TapInFare(type)
      res == IF station = NoStation THEN UnknownStationError
             ELSE IF Insufficient(balance, amount) THEN InsufficientBalanceError
             ELSE Ok
  IN  /\ calls < MaxCalls
      /\ calls' = calls + 1
      /\ last' = Call("tapIn", stationName, type, amount, res)
      /\ prev' = last
      /\ IF res = Ok
         THEN /\ balance' = deductFare(balance, amount)
              /\ currentJourney' = TapInJourney(currentJourney, stationName, type)
              /\ unmatchedTube' = (unmatchedTube \/ type = TUBE)
              /\ recentTapIn' = type
              /\ recentClosed' = FALSE
              /\ accounted' = IF type = BUS THEN accounted - BusFare
                              ELSE accounted
         ELSE UNCHANGED <<balance, currentJourney, unmatchedTube,
                          recentTapIn, recentClosed, accounted>>
      /\ UNCHANGED nonNegOnly
      /\ UNCHANGED fareVars

\* ------------------------------------------------------------------------
\* tapOut(stationName)
\* ------------------------------------------------------------------------
\* the outcome of tapOut: the throws in the order the source makes them
TapOutResultStationFirst(journey, stationName) ==
  IF Find(stationName) = NoStation THEN UnknownStationError
  ELSE IF InvalidTapOut(journey) THEN InvalidTapOutError
  ELSE IF Find(journey.from) = NoStation THEN TypeError
  ELSE Ok

TapOutResult(journey, stationName) ==
  IF InvalidTapOut(journey) THEN InvalidTapOutError
  ELSE IF Find(stationName) = NoStation THEN UnknownStationError
  ELSE IF Find(journey.from) = NoStation THEN TypeError
  ELSE Ok

TapOut(stationName) ==
  LET departureStation == Find(currentJourney.from)
      arrivalStation == Find(stationName)
      res == TapOutResult(currentJourney, stationName)
  IN  /\ calls < MaxCalls
      /\ calls' = calls + 1
      /\ last' = Call("tapOut", stationName, "none", 0, res)
      /\ prev' = last
      /\ IF res = Ok
         THEN /\ balance' = adjustFare(balance,
                               Refund(departureStation.zones,
                                      arrivalStation.zones))
              /\ currentJourney' = NoJourney
              /\ unmatchedTube' = FALSE
              /\ recentClosed' = TRUE
              /\ accounted' = accounted
                                - calculateTubeFare(departureStation.zones,
                                                    arrivalStation.zones)
         ELSE UNCHANGED <<balance, currentJourney, unmatchedTube, recentClosed,
                          accounted>>
      /\ UNCHANGED <<recentTapIn, nonNegOnly>>
      /\ UNCHANGED fareVars

\* ------------------------------------------------------------------------
\* getBalance()
\* ------------------------------------------------------------------------
GetBalance ==
  /\ calls < MaxCalls
  /\ calls' = calls + 1
  /\ last' = [Call("getBalance", "", "none", 0, Ok) EXCEPT !.ret = balance]
  /\ prev' = last
  /\ UNCHANGED <<balance, currentJourney, unmatchedTube, recentTapIn,
                 recentClosed, nonNegOnly, accounted>>
  /\ UNCHANGED fareVars

Next ==
  \/ \E amount \in LoadAmounts : Load(amount)
  \/ GetBalance
  \/ \E stationName \in StationNames, type \in TransportType :
       TapIn(stationName, type)
  \/ \E stationName \in StationNames : TapOut(stationName)

Spec == Init /\ [][Next]_vars

\* ------------------------------------------------------------------------
\* calculateTubeFare on arbitrary stations
\* ------------------------------------------------------------------------
FareInit ==
  /\ fromZones \in ZoneLists
  /\ toZones \in ZoneLists
  /\ fare = 0
  /\ evaluated = 0
  /\ balance \in InitialBalances
  /\ currentJourney \in {NoJourney, [from |-> "Holburn", type |-> TUBE]}
  /\ last = NoCall
  /\ prev = NoCall
  /\ unmatchedTube = (currentJourney # NoJourney)
  /\ recentTapIn = IF currentJourney # NoJourney THEN TUBE ELSE "none"
  /\ recentClosed = FALSE
  /\ nonNegOnly = (balance >= 0)
  /\ accounted = IF currentJourney # NoJourney THEN balance + MaxFare ELSE balance
  /\ calls = 0

Calculate ==
  /\ fare = 0
  /\ fare' = calculateTubeFare(fromZones, toZones)
  /\ evaluated' = Len(possibleFares(fromZones, toZones))
  /\ last' = Call("calculateTubeFare", "", TUBE, 0, Ok)
  /\ UNCHANGED <<fromZones, toZones>>
  /\ UNCHANGED <<balance, currentJourney, prev, unmatchedTube,
                 recentTapIn, recentClosed, nonNegOnly, accounted, calls>>

FareNext == Calculate

FareSpec == FareInit /\ [][FareNext]_vars

\* ------------------------------------------------------------------------
\* A caller recovering from an error: from any card state it taps out of
\* the open journey, loads until the balance covers MaxFare, then taps in.
\* Every call is synchronous and returns, so a caller that keeps calling
\* is never held up: weak fairness of its next call.
\* ------------------------------------------------------------------------
RecoverBalances == {-300, -100, 0, 200, 319, 320, 3000}

RecoverInit ==
  /\ balance \in RecoverBalances
  /\ currentJourney \in
       {NoJourney} \cup {[from |-> n, type |-> TUBE] : n \in KnownNames}
  /\ last = NoCall
  /\ prev = NoCall
  /\ unmatchedTube = (currentJourney # NoJourney)
  /\ recentTapIn = IF currentJourney # NoJourney THEN TUBE ELSE "none"
  /\ recentClosed = FALSE
  /\ nonNegOnly = (balance >= 0)
  /\ accounted = IF currentJourney # NoJourney THEN balance + MaxFare ELSE balance
  /\ fromZones = <<1>>
  /\ toZones = <<1>>
  /\ fare = 0
  /\ evaluated = 0
  /\ calls = 0

\* a tube tapIn has just succeeded
Recovered == last.op = "tapIn" /\ last.type = TUBE /\ last.res = Ok

RecoverTapOut ==
  /\ ~Recovered
  /\ currentJourney # NoJourney
  /\ \E stationName \in KnownNames : TapOut(stationName)

RecoverLoad ==
  /\ ~Recovered
  /\ currentJourney = NoJourney
  /\ balance < MaxFare
  /\ \E amount \in {a \in LoadAmounts : a >= MaxFare} : Load(amount)

RecoverTapIn ==
  /\ ~Recovered
  /\ currentJourney = NoJourney
  /\ balance >= MaxFare
  /\ \E stationName \in KnownNames : TapIn(stationName, TUBE)

RecoverNext == RecoverTapOut \/ RecoverLoad \/ RecoverTapIn

RecoverSpec == RecoverInit /\ [][RecoverNext]_vars /\ WF_vars(RecoverNext)

TypeOK ==
  /\ balance \in Int
  /\ calls \in 0..MaxCalls
  /\ currentJourney \in [from : StationNames \cup {""}, type : {BUS, TUBE, "none"}]
  /\ unmatchedTube \in BOOLEAN
  /\ recentTapIn \in {BUS, TUBE, "none"}

\* ------------------------------------------------------------------------
\* Vocabulary of the properties
\* ------------------------------------------------------------------------
Range(zones) == {zones[k] : k \in 1..Len(zones)}

\* the tier table keyed by (span, zone 1 involved)
TierFare(span, involvesZone1) ==
  IF span = 1 THEN (IF involvesZone1 THEN Zone1Only ELSE OneZoneOutsideZone1)
  ELSE IF span = 2 THEN (IF involvesZone1 THEN TwoZonesIncludingZone1
                         ELSE TwoZonesExcludingZone1)
  ELSE ThreeZones

\* the tier fares of every pair in the Cartesian product of two zone sets
PairFares(from, to) ==
  {TierFare(Abs(a - b) + 1, a = 1 \/ b = 1) : a \in Range(from), b \in Range(to)}

MinPairFare(from, to) ==
  CHOOSE m \in PairFares(from, to) : \A f \in PairFares(from, to) : m <= f

\* the fare between two stations of the directory
StationFare(fromName, toName) ==
  calculateTubeFare(Find(fromName).zones, Find(toName).zones)

\* the rejection the specification requires of a second tube tapIn; the
\* source throws no such Error
JourneyAlreadyOpenError == "Journey already open."

HasOpenJourney == currentJourney # NoJourney

Unchanged == balance = last.bal0 /\ currentJourney = last.jny0

TubeTapIn(c) == c.op = "tapIn" /\ c.type = TUBE

BusTapIn(c) == c.op = "tapIn" /\ c.type = BUS

\* ------------------------------------------------------------------------
\* C1: a tube tapIn at a known station while a tube journey is open is
\* rejected with JourneyAlreadyOpenError, and leaves the balance (only the
\* first debit taken) and the open journey (still the first origin) as they
\* were.
\* ------------------------------------------------------------------------
C1_SecondTubeTapInRejected ==
  (/\ TubeTapIn(last)
   /\ last.station \in KnownNames
   /\ last.jny0 # NoJourney
   /\ last.jny0.type = TUBE)
  => (last.res = JourneyAlreadyOpenError /\ Unchanged)

\* ------------------------------------------------------------------------
\* C2: a tapIn at a known station whose debit (tube: MaxFare, bus: BusFare)
\* exceeds the balance fails with InsufficientBalanceError, and the balance
\* and the open journey, present or absent, are what they were before.
\* ------------------------------------------------------------------------
C2_InsufficientBalanceRejected ==
  /\ (TubeTapIn(last) /\ last.station \in KnownNames /\ last.bal0 < MaxFare)
       => (last.res = InsufficientBalanceError /\ Unchanged)
  /\ (BusTapIn(last) /\ last.station \in KnownNames /\ last.bal0 < BusFare)
       => (last.res = InsufficientBalanceError /\ Unchanged)

C2_Witness ==
  /\ BusTapIn(last)
  /\ last.res = InsufficientBalanceError
  /\ last.jny0 # NoJourney
  /\ last.bal0 < BusFare

\* ------------------------------------------------------------------------
\* C3: tapOut returns normally only when a tube tapIn has returned normally
\* and no tapOut has returned since; in every other state it fails with
\* InvalidTapOutError and leaves balance and journey as they were.
\* ------------------------------------------------------------------------
C3_TapOutPairing ==
  last.op = "tapOut" =>
    /\ (last.res = Ok => last.unmatched0)
    /\ (~last.unmatched0 => (last.res = InvalidTapOutError /\ Unchanged))

C3_Witness ==
  /\ last.op = "tapOut"
  /\ last.res = InvalidTapOutError
  /\ prev.op = "tapOut"
  /\ prev.res = Ok

\* ------------------------------------------------------------------------
\* C4: a tube tapIn at A that returns normally, immediately followed by a
\* tapOut at a directory station B, leaves the balance exactly
\* calculateTubeFare(A, B) below the balance before the tapIn, and no open
\* journey; from 3000 pence, Holburn (zone 1) to Earl's Court (zones 1, 2)
\* ends at 2750.
\* ------------------------------------------------------------------------
C4_CompleteJourneyDelta ==
  (/\ last.op = "tapOut"
   /\ last.station \in KnownNames
   /\ TubeTapIn(prev)
   /\ prev.res = Ok)
  => /\ last.res = Ok
     /\ balance = prev.bal0 - StationFare(prev.station, last.station)
     /\ currentJourney = NoJourney
     /\ (/\ prev.bal0 = 3000
         /\ prev.station = "Holburn"
         /\ last.station = "Earl's Court") => balance = 2750

C4_Witness ==
  /\ last.op = "tapOut"
  /\ last.res = Ok
  /\ last.station = "Earl's Court"
  /\ TubeTapIn(prev)
  /\ prev.res = Ok
  /\ prev.station = "Holburn"
  /\ prev.bal0 = 3000
  /\ balance = 2750

\* ------------------------------------------------------------------------
\* C5: calculateTubeFare returns the minimum, over the Cartesian product of
\* the two zone sets, of the tier fare for span |a - b| + 1 and "a or b is
\* zone 1"; so no single zone of the origin gives a cheaper fare than the
\* whole zone list, and zones {1,2} to {3} costs no more than {2} to {3}.
\* ------------------------------------------------------------------------
C5_MinimumOverPairs ==
  fare # 0 =>
    /\ fare = MinPairFare(fromZones, toZones)
    /\ \A z \in Range(fromZones) : fare <= MinPairFare(<<z>>, toZones)
    /\ (fromZones = <<1, 2>> /\ toZones = <<3>>)
         => fare <= TierFare(2, FALSE)

C5_Witness ==
  /\ fromZones = <<1, 2>>
  /\ toZones = <<3>>
  /\ fare = TwoZonesExcludingZone1
  /\ evaluated = 2

\* ------------------------------------------------------------------------
\* C6 as stated: the card has an open journey if and only if the most
\* recent tapIn that returned normally, bus or tube, was a tube tapIn and
\* no tapOut has returned normally since.
\* ------------------------------------------------------------------------
C6_OpenIffMostRecentTapInIsTube ==
  HasOpenJourney <=> (recentTapIn = TUBE /\ ~recentClosed)

\* C6 as amended: the card has an open journey if and only if a tube tapIn
\* has returned normally and no tapOut has returned normally since; bus
\* tapIns in between do not count.
C6_OpenIffUnmatchedTubeTapIn ==
  HasOpenJourney <=> unmatchedTube

C6_Witness ==
  /\ HasOpenJourney
  /\ BusTapIn(last)
  /\ last.res = Ok
  /\ currentJourney.type = TUBE

\* ------------------------------------------------------------------------
\* C7: on a card created with a non-negative balance and loaded only with
\* non-negative amounts, the balance is never negative, whatever calls
\* succeeded or failed.
\* ------------------------------------------------------------------------
C7_BalanceNonNegative ==
  nonNegOnly => balance >= 0

C7_Witness ==
  /\ nonNegOnly
  /\ balance < BusFare
  /\ last.op = "tapOut"
  /\ last.res = Ok
  /\ prev.res = InsufficientBalanceError

\* ------------------------------------------------------------------------
\* C8: a bus tapIn at a known station with balance >= BusFare debits
\* exactly BusFare and leaves the journey, open or not, as it was; a tapOut
\* right after it settles against the origin the journey held before the
\* bus tapIn.
\* ------------------------------------------------------------------------
C8_BusTapInFrame ==
  /\ (BusTapIn(last) /\ last.station \in KnownNames /\ last.bal0 >= BusFare)
       => /\ last.res = Ok
          /\ balance = last.bal0 - BusFare
          /\ currentJourney = last.jny0
  /\ (/\ last.op = "tapOut"
      /\ last.station \in KnownNames
      /\ BusTapIn(prev)
      /\ prev.res = Ok
      /\ prev.jny0 # NoJourney)
       => /\ last.res = Ok
          /\ balance = prev.bal0 - BusFare + MaxFare
                         - StationFare(prev.jny0.from, last.station)

C8_Witness ==
  /\ last.op = "tapOut"
  /\ last.res = Ok
  /\ BusTapIn(prev)
  /\ prev.res = Ok
  /\ prev.jny0.from = "Wimbledon"
  /\ last.station = "Hammersmith"

\* ------------------------------------------------------------------------
\* C9: tapIn (bus or tube) at a name absent from the directory, and tapOut
\* at an absent name while a journey is open, fail with UnknownStationError
\* and leave balance and open journey as they were.
\* ------------------------------------------------------------------------
C9_UnknownStationRejected ==
  /\ (last.op = "tapIn" /\ last.station \notin KnownNames)
       => (last.res = UnknownStationError /\ Unchanged)
  /\ (/\ last.op = "tapOut"
      /\ last.station \notin KnownNames
      /\ last.jny0 # NoJourney)
       => (last.res = UnknownStationError /\ Unchanged)

C9_Witness ==
  /\ last.op = "tapOut"
  /\ last.res = UnknownStationError
  /\ HasOpenJourney
  /\ TubeTapIn(prev)
  /\ prev.res = Ok

\* ------------------------------------------------------------------------
\* C10: for two single-zone stations with zones a and b, calculateTubeFare
\* evaluates one pair and returns the tier table entry: a = b = 1 gives
\* Zone1Only, a = b # 1 OneZoneOutsideZone1, |a - b| = 1 with a zone 1
\* TwoZonesIncludingZone1, |a - b| = 1 without zone 1
\* TwoZonesExcludingZone1, |a - b| >= 2 ThreeZones.
\* ------------------------------------------------------------------------
C10_SingleZoneTiers ==
  (fare # 0 /\ Len(fromZones) = 1 /\ Len(toZones) = 1) =>
    LET a == fromZones[1]
        b == toZones[1]
    IN  /\ evaluated = 1
        /\ (a = b /\ a = 1) => fare = Zone1Only
        /\ (a = b /\ a # 1) => fare = OneZoneOutsideZone1
        /\ (Abs(a - b) = 1 /\ (a = 1 \/ b = 1)) => fare = TwoZonesIncludingZone1
        /\ (Abs(a - b) = 1 /\ a # 1 /\ b # 1) => fare = TwoZonesExcludingZone1
        /\ Abs(a - b) >= 2 => fare = ThreeZones
        /\ (a = 3 /\ b = 3) => fare = 200
        /\ (a = 3 /\ b = 1) => fare = 320

C10_Witness ==
  /\ fromZones = <<3>>
  /\ toZones = <<1>>
  /\ fare = ThreeZones
  /\ evaluated = 1

\* ------------------------------------------------------------------------
\* C11: for stations with non-empty zone lists, calculateTubeFare returns
\* one of the five tier fares, the value it returns depends on the two zone
\* lists only (whatever the card's balance and journey, the same lists give
\* the same fare), and the call leaves balance and open journey as they
\* were.
\* ------------------------------------------------------------------------
TierFares ==
  {Zone1Only, OneZoneOutsideZone1, TwoZonesIncludingZone1,
   TwoZonesExcludingZone1, ThreeZones}

C11_TierValuePureFunction ==
  last.op = "calculateTubeFare" =>
    /\ fare \in TierFares
    /\ fare = MinPairFare(fromZones, toZones)
    /\ Unchanged

C11_Witness ==
  /\ last.op = "calculateTubeFare"
  /\ Len(fromZones) = 2
  /\ Len(toZones) = 2
  /\ fare = OneZoneOutsideZone1
  /\ balance = 320
  /\ HasOpenJourney

\* ------------------------------------------------------------------------
\* C12: from a station to itself calculateTubeFare returns the cheapest
\* same-zone fare of its zones: Zone1Only when zone 1 is its only zone,
\* OneZoneOutsideZone1 when it has any other zone; no pair of two different
\* zones of the station is cheaper.
\* ------------------------------------------------------------------------
C12_SameStationFare ==
  (fare # 0 /\ fromZones = toZones) =>
    /\ (Range(fromZones) = {1} => fare = Zone1Only)
    /\ (Range(fromZones) # {1} => fare = OneZoneOutsideZone1)
    /\ \A a \in Range(fromZones), b \in Range(fromZones) :
         fare <= TierFare(Abs(a - b) + 1, a = 1 \/ b = 1)

C12_Witness ==
  /\ fare = OneZoneOutsideZone1
  /\ fromZones = <<1, 2>>
  /\ toZones = <<1, 2>>
  /\ evaluated = 4

\* ------------------------------------------------------------------------
\* C19: the fare does not depend on the direction: calculateTubeFare of
\* (A, B) equals calculateTubeFare of (B, A).
\* ------------------------------------------------------------------------
C19_DirectionIndependent ==
  fare # 0 => fare = calculateTubeFare(toZones, fromZones)

C19_Witness ==
  /\ fromZones = <<3>>
  /\ toZones = <<1, 2>>
  /\ fare = TwoZonesExcludingZone1

\* ------------------------------------------------------------------------
\* C13: load(amount) raises the balance by exactly amount and leaves the
\* journey, open or not, as it was; getBalance returns the balance and
\* changes neither balance nor journey, so two getBalance calls in a row
\* return the same value.
\* ------------------------------------------------------------------------
C13_LoadAndGetBalanceFrame ==
  /\ last.op = "load" =>
       /\ last.res = Ok
       /\ balance = last.bal0 + last.amount
       /\ currentJourney = last.jny0
  /\ last.op = "getBalance" =>
       /\ last.ret = last.bal0
       /\ Unchanged
  /\ (last.op = "getBalance" /\ prev.op = "getBalance") => last.ret = prev.ret

C13_Witness ==
  /\ last.op = "getBalance"
  /\ prev.op = "getBalance"
  /\ HasOpenJourney
  /\ last.ret = 180
  /\ calls = 4

\* ------------------------------------------------------------------------
\* C14: between any two stations of the directory the fare is at most
\* MaxFare, so the amount a successful tapOut credits is never negative and
\* a successful tapOut never lowers the balance.
\* ------------------------------------------------------------------------
C14_TapOutNeverDebits ==
  (last.op = "tapOut" /\ last.res = Ok) =>
    /\ StationFare(last.jny0.from, last.station) <= MaxFare
    /\ balance - last.bal0 = MaxFare - StationFare(last.jny0.from, last.station)
    /\ balance >= last.bal0

C14_Witness ==
  /\ last.op = "tapOut"
  /\ last.res = Ok
  /\ last.jny0.from = "Wimbledon"
  /\ last.station = "Holburn"
  /\ balance = last.bal0

\* ------------------------------------------------------------------------
\* C15: on a card with no open journey, a tube tapIn at a known station
\* succeeds if and only if balance >= MaxFare (balance = MaxFare included,
\* leaving 0); when it succeeds it debits exactly MaxFare and opens a tube
\* journey from that station, and when it fails it does neither: the debit
\* and the open journey come together or not at all.
\* ------------------------------------------------------------------------
C15_TubeTapInFromIdle ==
  (TubeTapIn(last) /\ last.station \in KnownNames /\ last.jny0 = NoJourney) =>
    /\ (last.res = Ok <=> last.bal0 >= MaxFare)
    /\ last.res = Ok =>
         /\ balance = last.bal0 - MaxFare
         /\ currentJourney = [from |-> last.station, type |-> TUBE]
    /\ last.res # Ok =>
         /\ last.res = InsufficientBalanceError
         /\ Unchanged
    /\ (balance # last.bal0 <=> currentJourney # last.jny0)

C15_Witness ==
  /\ TubeTapIn(last)
  /\ last.jny0 = NoJourney
  /\ last.res = Ok
  /\ last.bal0 = MaxFare
  /\ balance = 0
  /\ currentJourney.from = "Hammersmith"

\* ------------------------------------------------------------------------
\* C18: tapOut checks the journey before the station name: on a card with
\* no open journey it fails with InvalidTapOutError for every name, known
\* or not, and UnknownStationError comes out of tapOut only while a tube
\* journey is open.
\* ------------------------------------------------------------------------
C18_JourneyCheckedBeforeStation ==
  last.op = "tapOut" =>
    /\ (last.jny0 = NoJourney => last.res = InvalidTapOutError)
    /\ (last.res = UnknownStationError =>
          (last.jny0 # NoJourney /\ last.jny0.type = TUBE))

C18_Witness ==
  /\ last.op = "tapOut"
  /\ last.station \notin KnownNames
  /\ last.jny0 = NoJourney
  /\ last.res = InvalidTapOutError

\* ------------------------------------------------------------------------
\* C20: whenever a journey is open, its origin is the name of a station of
\* the directory and its transport type is tube, so the origin lookup in
\* tapOut never comes back empty and calculateTubeFare is never called on a
\* missing origin.
\* ------------------------------------------------------------------------
C20_OpenJourneyResolvable ==
  /\ HasOpenJourney =>
       /\ currentJourney.from \in KnownNames
       /\ currentJourney.type = TUBE
       /\ Find(currentJourney.from) # NoStation
  /\ last.res # TypeError

C20_Witness ==
  /\ HasOpenJourney
  /\ TubeTapIn(last)
  /\ last.res = Ok
  /\ TubeTapIn(prev)
  /\ prev.res = UnknownStationError

\* ------------------------------------------------------------------------
\* C17: money is conserved: in every reachable state the balance is the
\* initial balance plus the loaded amounts, minus BusFare for each
\* successful bus tapIn, minus the fare of each completed tube journey,
\* minus MaxFare if a journey is now open.
\* ------------------------------------------------------------------------
C17_MoneyConserved ==
  balance = accounted - (IF HasOpenJourney THEN MaxFare ELSE 0)

\* ------------------------------------------------------------------------
\* C16: every error is recoverable: with a journey open, tapOut at any
\* station of the directory succeeds whatever the balance (0 and below
\* included) and leaves no open journey; and from every card state a finite
\* run of tapOut and load calls leads to a tube tapIn at a known station
\* that succeeds.
\* ------------------------------------------------------------------------
C16_TapOutAlwaysCloses ==
  (last.op = "tapOut" /\ last.station \in KnownNames /\ last.jny0 # NoJourney)
    => (last.res = Ok /\ currentJourney = NoJourney)

C16_Recoverable == [] C16_TapOutAlwaysCloses /\ <> Recovered

C16_Witness ==
  /\ Recovered
  /\ prev.op = "load"
  /\ ~nonNegOnly
  /\ last.bal0 >= MaxFare
  /\ calls = 4

====
